---- MODULE Spec2Model ----
(***************************************************************************)
(* Model of the rag-podcast backend: the text segmenter                    *)
(* (PDFService.chunk_text), the retrieval context builder                  *)
(* (GeminiService._get_conversation_context over                           *)
(* QdrantService.search_similar), the dialogue synthesizer                 *)
(* (GeminiService.generate_podcast_conversation), the vector store         *)
(* service (QdrantService) and its routes (qdrant_routes.py), the PDF      *)
(* ingestion (PDFService.process_pdf_file) and the pipeline                *)
(* (PodcastService.generate_complete_podcast).                             *)
(*                                                                         *)
(* Python strings are modelled as sequences: a text handed to the          *)
(* segmenter is a sequence of one-character strings, a message or context  *)
(* is a sequence of literal pieces and interpolated values, so that        *)
(* splitting, joining and formatting are computed and not assumed.         *)
(***************************************************************************)
EXTENDS Integers, Sequences, FiniteSets, TLC

VARIABLES
    pc,                 \* position of the running operation
    \* ---- PDFService.chunk_text
    text, chunk_size, words, widx, current_chunk, chunks,
    \* ---- GeminiService / QdrantService
    entry,              \* which public operation was called
    agent_configs, pdf_id, query,
    collection,         \* the default collection in the vector store
    agents, query_embedding, client_raised, search_raised, search_results,
    context, ctx_path,
    explainer, curious, messages, conversation_history, round,
    gen_calls, gen_failed, last_prompt,
    conversation, error,
    \* ---- QdrantService, called by concurrent runs
    other_collection,   \* a second collection of the vector store
    next_id,            \* number of point ids generated so far
    q_pc, q_pending,    \* per run: position and the arguments in flight
    last_call,          \* the service call that completed last
    init_calls,         \* per run: initialize_default_collection calls returned
    \* ---- PodcastService.generate_complete_podcast
    pdf_chunks, upsert_result, run_points, audio_idx, podcast,
    \* ---- PDFService.process_pdf_file
    text_chunks,        \* the segments of the extracted text
    pdf_result          \* the PDFProcessingResult, once returned

chunkVars == <<text, chunk_size, words, widx, current_chunk, chunks>>
reqVars == <<entry, agent_configs, pdf_id, query, collection>>
ctxVars == <<query_embedding, client_raised, search_raised, search_results, context, ctx_path>>
flowVars == <<explainer, curious, messages, conversation_history, round,
              gen_calls, gen_failed, last_prompt>>
outVars == <<agents, conversation, error>>
svcVars == <<other_collection, next_id, q_pc, q_pending, last_call, init_calls>>
pdfVars == <<text_chunks, pdf_result>>
podVars == <<pdfVars, pdf_chunks, upsert_result, run_points, audio_idx, podcast>>
vars == <<pc, chunkVars, reqVars, svcVars, podVars, ctxVars, flowVars, outVars>>

\* ------------------------------------------------------------------------
\* Bounds of the model
\* ------------------------------------------------------------------------
MaxTextLen == 5
MaxChunkSize == 3
MaxAgents == 3
MaxPoints == 6
MaxIds == 2
MaxBatch == 2
MaxInitCalls == 2

\* ------------------------------------------------------------------------
\* Sequence helpers
\* ------------------------------------------------------------------------
RECURSIVE SeqsUpTo(_, _)
SeqsUpTo(S, n) ==
    IF n = 0 THEN {<<>>}
    ELSE LET shorter == SeqsUpTo(S, n - 1)
         IN shorter \cup {Append(s, x) : s \in {t \in shorter : Len(t) = n - 1}, x \in S}

Range(s) == {s[i] : i \in 1..Len(s)}

\* Python's s[-n:] on a list
LastN(s, n) == IF Len(s) <= n THEN s ELSE SubSeq(s, Len(s) - n + 1, Len(s))

\* Python's sep.join(parts), every part and sep being a sequence
RECURSIVE Join(_, _)
Join(sep, parts) ==
    IF parts = <<>> THEN <<>>
    ELSE IF Len(parts) = 1 THEN parts[1]
    ELSE parts[1] \o sep \o Join(sep, Tail(parts))

\* ------------------------------------------------------------------------
\* PDFService.chunk_text
\* ------------------------------------------------------------------------
Space == " "
Letters == {"a", "b"}
Chars == Letters \cup {Space}

ExampleText == <<"a", " ", "b", " ", "c", " ", "d", " ", "e">>
ExampleChunks == << <<"a", " ", "b">>, <<"c", " ", "d">>, <<"e">> >>

\* a text whose first word is longer than a chunk_size of 3
LongWordText == <<"a", "b", "a", "b", " ", "a", " ", "b">>

Texts == SeqsUpTo(Chars, MaxTextLen) \cup {ExampleText, LongWordText}

\* Python's str.split() without arguments: the maximal runs of
\* non-whitespace characters, in order; no empty word is produced.
RECURSIVE SplitFrom(_, _, _, _)
SplitFrom(t, i, cur, acc) ==
    IF i > Len(t)
    THEN IF cur = <<>> THEN acc ELSE Append(acc, cur)
    ELSE IF t[i] = Space
         THEN SplitFrom(t, i + 1, <<>>, IF cur = <<>> THEN acc ELSE Append(acc, cur))
         ELSE SplitFrom(t, i + 1, Append(cur, t[i]), acc)

Split(t) == SplitFrom(t, 1, <<>>, <<>>)

SpaceJoin(ws) == Join(<<Space>>, ws)

\* mutants of the loop condition of chunk_text
FitsOffByOne(cur, word, size) == Len(SpaceJoin(Append(cur, word))) <= size + 1
FitsStrict(cur, word, size) == Len(SpaceJoin(Append(cur, word))) < size

\* the loop condition: len(' '.join(current_chunk + [word])) <= chunk_size
Fits(cur, word, size) == Len(SpaceJoin(Append(cur, word))) <= size

\* if current_chunk: chunks.append(' '.join(current_chunk))
Flush(cs, cur) == IF cur # <<>> THEN Append(cs, SpaceJoin(cur)) ELSE cs

\* ------------------------------------------------------------------------
\* Values shared by the Gemini and Qdrant services
\* ------------------------------------------------------------------------
\* Optional[T]: None is the empty sequence, a value x is <<x>>
None == <<>>
Some(x) == <<x>>

\* Python truthiness of an Optional[str]: None and "" are falsy
Truthy(q) == q # None /\ q[1] # ""

\* Python's (q or default)
OrElse(q, default) == IF Truthy(q) THEN q[1] ELSE default

Roles == {"explainer", "curious", "user"}
PdfIds == {"pdf1", "pdf2"}
Queries == {None, Some(""), Some("q1"), Some("q2")}

\* settings.QDRANT_COLLECTION
QDRANT_COLLECTION == "podcast_chunks"

\* limit=5 in _get_conversation_context
SearchLimit == 5
\* for i in range(5) in _generate_conversation_flow
Rounds == 5
\* conversation_history[-5:] in generate_agent_response
HistoryWindow == 5

\* ------------------------------------------------------------------------
\* The vector store behind QdrantService.client, and the embedding model
\* ------------------------------------------------------------------------
ContentNames == <<"c1", "c2", "c3", "c4", "c5", "c6", "c7", "c8", "c9">>

\* a point as upsert_vectors stores it: id, vector, payload
StoredPoint(i) ==
    [id |-> i,
     vector |-> <<(2 * i) % 5>>,
     payload |-> [pdf_id |-> IF i % 2 = 0 THEN "pdf1" ELSE "pdf2",
                  content |-> ContentNames[i]]]

\* SentenceTransformer.encode: deterministic for identical input
Embed(q) == IF q = "q1" THEN <<1>> ELSE <<4>>

\* vector_size = len(sample_embedding[0]): the size of the model's vectors
EmbeddingDim == Len(Embed("sample text"))

\* a collection of the store: its vector size and metric and its points
CollectionWith(n) ==
    [exists |-> TRUE, dim |-> EmbeddingDim, distance |-> "Cosine",
     points |-> [i \in 1..n |-> StoredPoint(i)]]
AbsentCollection == [exists |-> FALSE, dim |-> 0, distance |-> "", points |-> <<>>]

\* distance of two vectors of the same length, from coordinate i on
RECURSIVE DistFrom(_, _, _)
DistFrom(qv, v, i) ==
    IF i > Len(qv) THEN 0
    ELSE (IF qv[i] >= v[i] THEN qv[i] - v[i] ELSE v[i] - qv[i]) + DistFrom(qv, v, i + 1)

\* similarity of a stored vector to the query vector (larger is closer)
Score(qv, v) == 0 - DistFrom(qv, v, 1)

\* client.search: the limit best points by score, ties in insertion order;
\* it raises when the backend is unreachable, the collection is missing or
\* the query vector has not the collection's size; with_vectors tells
\* whether the hits carry their vector (they do not unless asked for)
ClientSearchVectors(coll, qv, limit, backend_up, with_vectors) ==
    IF ~backend_up \/ ~coll.exists \/ Len(qv) # coll.dim
    THEN [raised |-> TRUE, hits |-> <<>>]
    ELSE LET ps == coll.points
             n == Len(ps)
             Better(i, j) == \/ Score(qv, ps[i].vector) > Score(qv, ps[j].vector)
                             \/ /\ Score(qv, ps[i].vector) = Score(qv, ps[j].vector)
                                /\ i < j
             Pos(i) == 1 + Cardinality({j \in 1..n : Better(j, i)})
             k == IF n < limit THEN n ELSE limit
         IN [raised |-> FALSE,
             hits |-> [r \in 1..k |->
                         LET i == CHOOSE x \in 1..n : Pos(x) = r
                         IN [id |-> ps[i].id,
                             score |-> Score(qv, ps[i].vector),
                             payload |-> ps[i].payload,
                             vector |-> IF with_vectors THEN Some(ps[i].vector)
                                        ELSE None]]]

\* client.search as search_similar calls it: with_vectors is not passed
ClientSearch(coll, qv, limit, backend_up) ==
    ClientSearchVectors(coll, qv, limit, backend_up, FALSE)

\* the hit cannot be converted: result.vector is a non-empty list, which
\* is truthy and has no tolist()
VectorRaises(hit) == hit.vector # None /\ hit.vector[1] # <<>>

\* the loop of search_similar: one VectorSearchResult per hit, in order, with
\* vector=result.vector.tolist() if result.vector else None
ConvertHits(r) ==
    IF \E i \in 1..Len(r.hits) : VectorRaises(r.hits[i])
    THEN [raised |-> TRUE, results |-> <<>>]
    ELSE [raised |-> FALSE,
          results |-> [i \in 1..Len(r.hits) |->
                         [id |-> r.hits[i].id, score |-> r.hits[i].score,
                          payload |-> r.hits[i].payload, vector |-> None]]]

\* mutant: the except clause of search_similar is missing
SearchSimilarOfNoCatch(r) ==
    IF r.raised THEN [raised |-> TRUE, results |-> <<>>] ELSE ConvertHits(r)

\* search_similar on the outcome r of client.search: any exception, of the
\* client or of the conversion, is logged and turned into []
SearchSimilarOf(r) ==
    IF r.raised \/ ConvertHits(r).raised
    THEN [raised |-> FALSE, results |-> <<>>]
    ELSE ConvertHits(r)

\* mutant: the search is restricted to the points of one document
SearchSimilarOwnPdf(coll, qv, limit, backend_up) ==
    SearchSimilarOf(ClientSearch(
        [coll EXCEPT !.points = SelectSeq(coll.points, LAMBDA pt : pt.payload.pdf_id = "pdf1")],
        qv, limit, backend_up))

\* QdrantService.search_similar as _get_conversation_context calls it
SearchSimilar(coll, qv, limit, backend_up) ==
    SearchSimilarOf(ClientSearch(coll, qv, limit, backend_up))

\* ------------------------------------------------------------------------
\* The collection operations of the vector store client
\* ------------------------------------------------------------------------
OtherCollection == "test_collection"
CollNames == {QDRANT_COLLECTION, OtherCollection}

\* models.Distance(config.distance_metric.upper())
DistanceOf(metric) ==
    IF metric = "cosine" THEN "Cosine" ELSE IF metric = "dot" THEN "Dot" ELSE "Euclid"

\* client.create_collection: raises when the backend is unreachable or the
\* name is taken
ClientCreate(coll, size, distance, backend_up) ==
    IF ~backend_up \/ coll.exists
    THEN [raised |-> TRUE, coll |-> coll]
    ELSE [raised |-> FALSE,
          coll |-> [exists |-> TRUE, dim |-> size, distance |-> distance,
                    points |-> <<>>]]

\* client.collection_exists
ClientExists(coll, backend_up) ==
    IF ~backend_up THEN [raised |-> TRUE, value |-> FALSE]
    ELSE [raised |-> FALSE, value |-> coll.exists]

\* the points of a collection after one point is upserted: a point of the
\* same id is replaced, any other id is added
RECURSIVE PutPoint(_, _)
PutPoint(ps, pt) ==
    IF ps = <<>> THEN <<pt>>
    ELSE IF ps[1].id = pt.id THEN <<pt>> \o Tail(ps)
    ELSE <<ps[1]>> \o PutPoint(Tail(ps), pt)

RECURSIVE PutPoints(_, _)
PutPoints(ps, pts) ==
    IF pts = <<>> THEN ps ELSE PutPoints(PutPoint(ps, pts[1]), Tail(pts))

\* client.upsert: raises when the backend is unreachable, the collection is
\* missing or a vector has not the collection's size; nothing is written then
ClientUpsert(coll, pts, backend_up) ==
    IF \/ ~backend_up
       \/ ~coll.exists
       \/ \E i \in 1..Len(pts) : Len(pts[i].vector) # coll.dim
    THEN [raised |-> TRUE, coll |-> coll]
    ELSE [raised |-> FALSE,
          coll |-> [coll EXCEPT !.points = PutPoints(coll.points, pts)]]

\* client.get_collection
ClientGetCollection(coll, backend_up) ==
    IF ~backend_up \/ ~coll.exists
    THEN [raised |-> TRUE, vectors_count |-> 0, points_count |-> 0,
          config |-> [size |-> 0, distance |-> ""]]
    ELSE [raised |-> FALSE,
          vectors_count |-> Len(coll.points), points_count |-> Len(coll.points),
          config |-> [size |-> coll.dim, distance |-> coll.distance]]

\* client.delete_collection: raises only when the backend is unreachable;
\* a missing collection is no error
ClientDelete(coll, backend_up) ==
    IF ~backend_up THEN [raised |-> TRUE, coll |-> coll]
    ELSE [raised |-> FALSE, coll |-> AbsentCollection]

\* ------------------------------------------------------------------------
\* QdrantService: what each method returns for the outcome r of its call
\* ------------------------------------------------------------------------
Returned(v) == [raised |-> FALSE, value |-> v]
Raised == [raised |-> TRUE, value |-> FALSE]

\* create_collection: True, or False from the except clause
CreateCollection(r) == IF r.raised THEN Returned(FALSE) ELSE Returned(TRUE)

\* collection_exists: the client's answer, or False from the except clause
CollectionExists(r) == IF r.raised THEN Returned(FALSE) ELSE Returned(r.value)

\* upsert_vectors: True, or False from the except clause
UpsertVectors(r) == IF r.raised THEN Returned(FALSE) ELSE Returned(TRUE)

EmptyDict == [keys |-> {}]

InfoDict(name, r) ==
    [keys |-> {"name", "vectors_count", "points_count", "config"},
     name |-> name, vectors_count |-> r.vectors_count,
     points_count |-> r.points_count, config |-> r.config]

\* mutant: get_collection_info without its except clause
GetCollectionInfoNoCatch(name, r) ==
    IF r.raised THEN [raised |-> TRUE, value |-> EmptyDict]
    ELSE Returned(InfoDict(name, r))

\* get_collection_info: the info dict, or {} from the except clause
GetCollectionInfo(name, r) ==
    IF r.raised THEN Returned(EmptyDict) ELSE Returned(InfoDict(name, r))

\* mutant: a delete that reports a missing collection as a failure
DeleteCollectionStrict(r, existed) ==
    IF r.raised \/ ~existed THEN Returned(FALSE) ELSE Returned(TRUE)

\* delete_collection: True, or False from the except clause
DeleteCollection(r, existed) == IF r.raised THEN Returned(FALSE) ELSE Returned(TRUE)

\* ------------------------------------------------------------------------
\* PDFChunk objects and the points upsert_vectors builds from them
\* ------------------------------------------------------------------------
\* metadata.get(key, default) on an optional metadata entry
MetaGet(item, default) == IF item = None THEN default ELSE item[1]

Chunk(content, page, embedding, source, index) ==
    [content |-> content, page_number |-> page, embedding |-> embedding,
     metadata |-> [source |-> source, chunk_index |-> index]]

\* chunks of two documents with the same chunk index, one with a vector of
\* another size and without the optional metadata, one without embedding
SampleChunks ==
    {Chunk("c1", 1, Some(<<2>>), Some("a.pdf"), Some(0)),
     Chunk("c2", 1, Some(<<1>>), Some("b.pdf"), Some(0)),
     Chunk("c3", 2, Some(<<1, 1>>), None, None),
     Chunk("c4", 1, None, Some("a.pdf"), Some(1))}

ChunkLists == SeqsUpTo(SampleChunks, MaxBatch) \ {<<>>}

\* mutant: the point id is derived from the chunk index
PointIdFromIndex(counter, chunk) == MetaGet(chunk.metadata.chunk_index, 0) + 1

\* id=str(uuid.uuid4()): an id no other point has
PointId(counter, chunk) == counter + 1

\* mutant: the chunk index of the payload is the position in the call
PointPayloadByPosition(chunk, pos) ==
    [pdf_id |-> "", content |-> chunk.content, page_number |-> chunk.page_number,
     source |-> MetaGet(chunk.metadata.source, ""), chunk_index |-> pos - 1]

\* the payload dict of a point
PointPayload(chunk, pos) ==
    [pdf_id |-> "", content |-> chunk.content, page_number |-> chunk.page_number,
     source |-> MetaGet(chunk.metadata.source, ""),
     chunk_index |-> MetaGet(chunk.metadata.chunk_index, 0)]

\* PointStruct(vector=None) is rejected by the model's validation
PointStructRaises(cs) == \E i \in 1..Len(cs) : cs[i].embedding = None

\* the points list built by the loop of upsert_vectors
BuildPoints(cs, counter) ==
    [i \in 1..Len(cs) |->
        [id |-> PointId(counter + i - 1, cs[i]),
         vector |-> cs[i].embedding[1],
         payload |-> PointPayload(cs[i], i)]]

\* ------------------------------------------------------------------------
\* GeminiService._get_conversation_context
\* ------------------------------------------------------------------------
BlankLine == "\n\n"

\* f"Context from PDF {pdf_id} about various topics."
NoQueryContext(pid) == <<"Context from PDF ", pid, " about various topics.">>

\* the string returned by the except clause
GenericContext == <<"General context about the PDF content.">>

\* mutant: the contexts are joined in reverse rank order
JoinContentsReversed(results) ==
    Join(<<BlankLine>>,
         [i \in 1..Len(results) |-> <<results[Len(results) + 1 - i].payload.content>>])

\* "\n\n".join([result.payload["content"] for result in results])
JoinContents(results) ==
    Join(<<BlankLine>>, [i \in 1..Len(results) |-> <<results[i].payload.content>>])

\* ------------------------------------------------------------------------
\* GeminiService.generate_agent_response and _generate_conversation_flow
\* ------------------------------------------------------------------------
\* the text of the exception raised by a failed generation call
GenError == "quota exceeded"
\* response.text.strip() of a successful generation call
GenText == <<"generated text">>

ApologyPrefix == "Sorry, I encountered an error generating a response. "

\* mutant: the apology leaves out str(e)
ApologyWithoutError(err) == <<ApologyPrefix>>

\* f"Sorry, I encountered an error generating a response. {str(e)}"
Apology(err) == <<ApologyPrefix, err>>

\* mutant: the whole history is shown, not the last five messages
HistoryTextAll(history) ==
    [i \in 1..Len(history) |->
        [agent_id |-> history[i].agent_id, content |-> history[i].content]]

\* the history lines of the prompt: f"{msg.agent_id}: {msg.content}" for the
\* last 5 messages
HistoryText(history) ==
    LET w == LastN(history, HistoryWindow)
    IN [i \in 1..Len(w) |-> [agent_id |-> w[i].agent_id, content |-> w[i].content]]

Prompt(agent_id, ctx, history) ==
    [agent |-> agent_id, context |-> ctx, history |-> HistoryText(history)]

NoPrompt == [agent |-> 0, context |-> <<>>, history |-> <<>>]

\* generate_agent_response: the generated text, or the apology when the
\* generation call raises
AgentResponse(ok) == IF ok THEN GenText ELSE Apology(GenError)

\* PodcastAgent objects built from request.agent_configs; the uuid4 ids are
\* pairwise distinct, here the position in the list
MakeAgents(configs) == [i \in 1..Len(configs) |-> [id |-> i, role |-> configs[i]]]

\* next((a for a in agents if a.role == role), None): the id of the first
\* agent of that role, 0 standing for None
FirstWithRole(ags, role) ==
    IF \E i \in 1..Len(ags) : ags[i].role = role
    THEN ags[CHOOSE i \in 1..Len(ags) :
                /\ ags[i].role = role
                /\ \A j \in 1..Len(ags) : ags[j].role = role => i <= j].id
    ELSE 0

\* mutant: only the explainer is required
MissingOnlyExplainer(e, c) == e = 0

\* if not explainer or not curious
MissingRequiredAgent(e, c) == e = 0 \/ c = 0

\* mutant: the loop runs once more
MoreRoundsOffByOne(done) == done <= Rounds

\* for i in range(5): another round follows when fewer than 5 are done
MoreRounds(done) == done < Rounds

DefaultTopic == "this PDF content"

\* f"What can you tell me about {query or 'this PDF content'}?"
InitialQuestion(q) == <<"What can you tell me about ", OrElse(q, DefaultTopic), "?">>

Message(agent_id, content) ==
    [agent_id |-> agent_id, content |-> content, is_user_message |-> FALSE]

FlowError == "Explainer and curious agents must be present"
\* raise Exception(f"Failed to generate podcast conversation: {str(e)}")
WrappedError(err) == <<"Failed to generate podcast conversation: ", err>>

\* f"Podcast about {request.query or 'PDF content'}"
Title(q) == <<"Podcast about ", OrElse(q, "PDF content")>>

\* ------------------------------------------------------------------------
\* Initial states
\* ------------------------------------------------------------------------
IdleChunk ==
    /\ text = <<>> /\ chunk_size = 1 /\ words = <<>> /\ widx = 1
    /\ current_chunk = <<>> /\ chunks = <<>>

FreshCall ==
    /\ agents = <<>> /\ query_embedding = <<>>
    /\ client_raised = FALSE /\ search_raised = FALSE /\ search_results = <<>>
    /\ context = <<>> /\ ctx_path = "none"
    /\ explainer = 0 /\ curious = 0
    /\ messages = <<>> /\ conversation_history = <<>> /\ round = 0
    /\ gen_calls = 0 /\ gen_failed = <<>> /\ last_prompt = NoPrompt
    /\ conversation = None /\ error = None

Runs == {"run1", "run2"}

\* a completed call: who called what on which collection, whether the
\* client was called and raised, whether the method raised, what it
\* returned (value: a bool, results: a list, info: a dict, name_out: a
\* name), and for upsert and search the arguments and what the client got
NoCall ==
    [run |-> "", op |-> "none", name |-> "", called |-> FALSE,
     client_raised |-> FALSE, raised |-> FALSE,
     value |-> FALSE, results |-> <<>>, info |-> EmptyDict, name_out |-> "",
     chunks |-> <<>>, sent |-> <<>>, hits |-> <<>>, limit |-> 0,
     existed |-> FALSE, created |-> FALSE, before |-> <<>>,
     status |-> 0, detail |-> <<>>]

NoPending == [name |-> "", chunks |-> <<>>, points |-> <<>>]

IdleService ==
    /\ other_collection = AbsentCollection /\ next_id = 0
    /\ q_pc = [p \in Runs |-> "idle"] /\ q_pending = [p \in Runs |-> NoPending]
    /\ last_call = NoCall
    /\ init_calls = [p \in Runs |-> 0]

IdlePodcast ==
    /\ pdf_chunks = <<>> /\ upsert_result = FALSE /\ run_points = <<>>
    /\ audio_idx = 0 /\ podcast = None
    /\ text_chunks = <<>> /\ pdf_result = None

\* chunk_text(text, chunk_size) is called
InitChunk ==
    /\ pc = "chunk_start"
    /\ text \in Texts /\ chunk_size \in 1..MaxChunkSize
    /\ words = <<>> /\ widx = 1 /\ current_chunk = <<>> /\ chunks = <<>>
    /\ entry = "chunk_text" /\ agent_configs = <<>> /\ pdf_id = "pdf1"
    /\ query = None /\ collection = AbsentCollection
    /\ FreshCall
    /\ IdleService /\ IdlePodcast

\* _get_conversation_context(pdf_id, query) is called
InitContext ==
    /\ pc = "ctx_start"
    /\ IdleChunk
    /\ entry = "context" /\ agent_configs = <<>>
    /\ pdf_id \in PdfIds /\ query \in Queries
    /\ collection \in {AbsentCollection} \cup {CollectionWith(n) : n \in 0..MaxPoints}
    /\ FreshCall
    /\ IdleService /\ IdlePodcast

\* generate_podcast_conversation(request) is called
Init ==
    /\ pc = "gen_start"
    /\ IdleChunk
    /\ entry = "conversation"
    /\ agent_configs \in SeqsUpTo(Roles, MaxAgents)
    /\ pdf_id = "pdf1" /\ query \in {None, Some("q1")}
    /\ collection = CollectionWith(2)
    /\ FreshCall
    /\ IdleService /\ IdlePodcast

\* ------------------------------------------------------------------------
\* PDFService.chunk_text, one action per step of the function
\* ------------------------------------------------------------------------
\* words = text.split(); chunks = []; current_chunk = []
ChunkStart ==
    /\ pc = "chunk_start"
    /\ words' = Split(text)
    /\ widx' = 1 /\ current_chunk' = <<>> /\ chunks' = <<>>
    /\ pc' = "chunk_loop"
    /\ UNCHANGED <<text, chunk_size, reqVars, svcVars, podVars, ctxVars, flowVars, outVars>>

\* loop body, the word still fits: current_chunk.append(word)
ChunkAppend ==
    /\ pc = "chunk_loop" /\ widx <= Len(words)
    /\ Fits(current_chunk, words[widx], chunk_size)
    /\ current_chunk' = Append(current_chunk, words[widx])
    /\ widx' = widx + 1
    /\ UNCHANGED <<pc, text, chunk_size, words, chunks,
                   reqVars, svcVars, podVars, ctxVars, flowVars, outVars>>

\* loop body, else branch: seal the current chunk, start one with the word
ChunkSeal ==
    /\ pc = "chunk_loop" /\ widx <= Len(words)
    /\ ~Fits(current_chunk, words[widx], chunk_size)
    /\ chunks' = Append(chunks, SpaceJoin(current_chunk))
    /\ current_chunk' = <<words[widx]>>
    /\ widx' = widx + 1
    /\ UNCHANGED <<pc, text, chunk_size, words,
                   reqVars, svcVars, podVars, ctxVars, flowVars, outVars>>

\* after the loop: flush the last chunk and return chunks
ChunkFinish ==
    /\ pc = "chunk_loop" /\ widx > Len(words)
    /\ chunks' = Flush(chunks, current_chunk)
    /\ pc' = "chunk_done"
    /\ UNCHANGED <<text, chunk_size, words, widx, current_chunk,
                   reqVars, svcVars, podVars, ctxVars, flowVars, outVars>>

NextChunk == ChunkStart \/ ChunkAppend \/ ChunkSeal \/ ChunkFinish

SpecChunk == InitChunk /\ [][NextChunk]_vars

\* ------------------------------------------------------------------------
\* GeminiService._get_conversation_context
\* ------------------------------------------------------------------------
\* where control goes once the context is built
AfterContext == IF entry = "conversation" THEN "flow_start" ELSE "ctx_done"

\* if query: ... else: context = f"Context from PDF {pdf_id} ..."
CtxBranch ==
    /\ pc = "ctx_start"
    /\ IF Truthy(query)
       THEN /\ pc' = "ctx_embed"
            /\ UNCHANGED <<context, ctx_path>>
       ELSE /\ context' = NoQueryContext(pdf_id)
            /\ ctx_path' = "no_query"
            /\ pc' = AfterContext
    /\ UNCHANGED <<chunkVars, reqVars, svcVars, podVars, query_embedding, client_raised,
                   search_raised, search_results, flowVars, outVars>>

\* the exception text of a failed embedding call
EmbedError == "embedding model unavailable"

\* mutant: _get_conversation_context has no except clause
CtxExceptPropagates(err) == [raised |-> TRUE, value |-> <<>>, err |-> err]

\* except Exception as e: return "General context about the PDF content."
CtxExcept(err) == [raised |-> FALSE, value |-> GenericContext, err |-> err]

\* an exception leaving _get_conversation_context: the except clause of
\* generate_podcast_conversation re-raises it wrapped
CtxRaise(err) ==
    /\ pc' = IF entry = "conversation" THEN "raised" ELSE "ctx_raised"
    /\ error' = Some(IF entry = "conversation" THEN WrappedError(err) ELSE <<err>>)
    /\ UNCHANGED context

\* query_embedding = model.encode([query])[0].tolist(); loading or running
\* the model may raise, which the except clause turns into the generic text
CtxEmbed ==
    /\ pc = "ctx_embed"
    /\ \E embed_ok \in BOOLEAN :
         IF embed_ok
         THEN /\ query_embedding' = Embed(query[1])
              /\ pc' = "ctx_search"
              /\ UNCHANGED <<context, ctx_path, error>>
         ELSE /\ ctx_path' = "embed_failed"
              /\ UNCHANGED query_embedding
              /\ LET h == CtxExcept(EmbedError)
                 IN IF h.raised
                    THEN CtxRaise(h.err)
                    ELSE /\ context' = h.value
                         /\ pc' = AfterContext
                         /\ UNCHANGED error
    /\ UNCHANGED <<chunkVars, reqVars, svcVars, podVars, client_raised, search_raised,
                   search_results, flowVars, agents, conversation>>

\* the exception text of a failed search
SearchError == "vector store unavailable"

\* results = search_similar(QDRANT_COLLECTION, query_embedding, limit=5);
\* context = "\n\n".join(contents); an exception is turned into the generic
\* text by the except clause
CtxSearch ==
    /\ pc = "ctx_search"
    /\ \E backend_up \in BOOLEAN :
         LET r == SearchSimilar(collection, query_embedding, SearchLimit, backend_up)
         IN /\ client_raised' =
                 ClientSearch(collection, query_embedding, SearchLimit, backend_up).raised
            /\ search_raised' = r.raised
            /\ search_results' = r.results
            /\ IF r.raised
               THEN /\ ctx_path' = "search_raised"
                    /\ LET h == CtxExcept(SearchError)
                       IN IF h.raised
                          THEN CtxRaise(h.err)
                          ELSE /\ context' = h.value
                               /\ pc' = AfterContext
                               /\ UNCHANGED error
               ELSE /\ context' = JoinContents(r.results)
                    /\ ctx_path' = "searched"
                    /\ pc' = AfterContext
                    /\ UNCHANGED error
    /\ UNCHANGED <<chunkVars, reqVars, svcVars, podVars, query_embedding, flowVars, agents,
                   conversation>>

NextContext == CtxBranch \/ CtxEmbed \/ CtxSearch

SpecContext == InitContext /\ [][NextContext]_vars

\* ------------------------------------------------------------------------
\* GeminiService.generate_podcast_conversation
\* ------------------------------------------------------------------------
\* agents = [PodcastAgent(...) for agent_config in request.agent_configs],
\* then the context is fetched
GenerateStart ==
    /\ pc = "gen_start"
    /\ agents' = MakeAgents(agent_configs)
    /\ pc' = "ctx_start"
    /\ UNCHANGED <<chunkVars, reqVars, svcVars, podVars, ctxVars, flowVars, conversation, error>>

\* _generate_conversation_flow up to the loop: find the agents, raise
\* ValueError when one is missing (re-raised by the caller's except clause),
\* else append the opening question of the curious agent
FlowStart ==
    /\ pc = "flow_start"
    /\ LET e == FirstWithRole(agents, "explainer")
           c == FirstWithRole(agents, "curious")
       IN /\ explainer' = e
          /\ curious' = c
          /\ IF MissingRequiredAgent(e, c)
             THEN /\ error' = Some(WrappedError(FlowError))
                  /\ pc' = "raised"
                  /\ UNCHANGED <<messages, conversation_history>>
             ELSE /\ messages' = Append(messages, Message(c, InitialQuestion(query)))
                  /\ conversation_history' =
                         Append(conversation_history, Message(c, InitialQuestion(query)))
                  /\ pc' = "explainer_turn"
                  /\ UNCHANGED error
    /\ UNCHANGED <<chunkVars, reqVars, svcVars, podVars, ctxVars, round, gen_calls, gen_failed,
                   last_prompt, agents, conversation>>

\* one call of generate_agent_response for the speaker and the append of
\* its message to messages and conversation_history
Turn(speaker) ==
    \E ok \in BOOLEAN :
        /\ last_prompt' = Prompt(speaker, context, conversation_history)
        /\ gen_calls' = gen_calls + 1
        /\ gen_failed' = Append(gen_failed, ~ok)
        /\ messages' = Append(messages, Message(speaker, AgentResponse(ok)))
        /\ conversation_history' =
               Append(conversation_history, Message(speaker, AgentResponse(ok)))

\* loop body, first half: the explainer responds
ExplainerTurn ==
    /\ pc = "explainer_turn"
    /\ Turn(explainer)
    /\ pc' = "curious_turn"
    /\ UNCHANGED <<chunkVars, reqVars, svcVars, podVars, ctxVars, explainer, curious,
                   round, outVars>>

\* loop body, second half: the curious agent asks a follow-up; the loop
\* ends after range(5)
CuriousTurn ==
    /\ pc = "curious_turn"
    /\ Turn(curious)
    /\ round' = round + 1
    /\ pc' = IF MoreRounds(round + 1) THEN "explainer_turn" ELSE "flow_return"
    /\ UNCHANGED <<chunkVars, reqVars, svcVars, podVars, ctxVars, explainer, curious, outVars>>

\* conversation = PodcastConversation(..., status="completed"); return it
FlowReturn ==
    /\ pc = "flow_return"
    /\ conversation' = Some([pdf_id |-> pdf_id,
                             title |-> Title(query),
                             agents |-> agents,
                             messages |-> messages,
                             status |-> "completed"])
    /\ pc' = "returned"
    /\ UNCHANGED <<chunkVars, reqVars, svcVars, podVars, ctxVars, flowVars, agents, error>>

Next ==
    \/ GenerateStart
    \/ CtxBranch \/ CtxEmbed \/ CtxSearch
    \/ FlowStart
    \/ ExplainerTurn \/ CuriousTurn
    \/ FlowReturn

Spec == Init /\ [][Next]_vars

\* the scheduling of a synchronous call: a started call keeps running
FairSpec == Spec /\ WF_vars(Next)

\* ------------------------------------------------------------------------
\* QdrantService called by two concurrent runs; a method with one client
\* call is one step, upsert_vectors and initialize_default_collection are
\* two steps each
\* ------------------------------------------------------------------------
Coll(name) == IF name = QDRANT_COLLECTION THEN collection ELSE other_collection

SetColl(name, c) ==
    /\ collection' = IF name = QDRANT_COLLECTION THEN c ELSE collection
    /\ other_collection' = IF name = QDRANT_COLLECTION THEN other_collection ELSE c

qBase == <<pc, chunkVars, entry, agent_configs, pdf_id, query, ctxVars, flowVars,
           outVars, podVars>>
qFrame == <<qBase, init_calls>>

Call(p, op, name, r, res) ==
    [NoCall EXCEPT !.run = p, !.op = op, !.name = name, !.called = TRUE,
                   !.client_raised = r.raised, !.raised = res.raised,
                   !.existed = Coll(name).exists, !.before = Coll(name).points]

InitQdrant ==
    /\ pc = "service"
    /\ IdleChunk
    /\ entry = "qdrant" /\ agent_configs = <<>> /\ pdf_id = "pdf1" /\ query = None
    /\ collection = AbsentCollection
    /\ FreshCall
    /\ IdleService /\ IdlePodcast

\* create_collection(config)
QCreate(p) ==
    /\ q_pc[p] = "idle"
    /\ \E name \in CollNames, size \in {EmbeddingDim, EmbeddingDim + 1},
          backend_up \in BOOLEAN :
         LET r == ClientCreate(Coll(name), size, DistanceOf("cosine"), backend_up)
         IN /\ SetColl(name, r.coll)
            /\ last_call' = [Call(p, "create", name, r, CreateCollection(r))
                               EXCEPT !.value = CreateCollection(r).value]
    /\ UNCHANGED <<qFrame, next_id, q_pc, q_pending>>

\* collection_exists(collection_name)
QExists(p) ==
    /\ q_pc[p] = "idle"
    /\ \E name \in CollNames, backend_up \in BOOLEAN :
         LET r == ClientExists(Coll(name), backend_up)
         IN last_call' = [Call(p, "exists", name, r, CollectionExists(r))
                            EXCEPT !.value = CollectionExists(r).value]
    /\ UNCHANGED <<qFrame, collection, other_collection, next_id, q_pc, q_pending>>

\* upsert_vectors, the loop that builds the points; a chunk without
\* embedding ends the call in the except clause before the client is called
QUpsertBuild(p) ==
    /\ q_pc[p] = "idle"
    /\ \E name \in CollNames, cs \in ChunkLists :
         /\ next_id + Len(cs) <= MaxIds
         /\ IF PointStructRaises(cs)
            THEN /\ last_call' = [Call(p, "upsert", name, Raised, UpsertVectors(Raised))
                                    EXCEPT !.called = FALSE, !.client_raised = FALSE,
                                           !.chunks = cs,
                                           !.value = UpsertVectors(Raised).value]
                 /\ UNCHANGED <<next_id, q_pc, q_pending>>
            ELSE /\ q_pending' = [q_pending EXCEPT ![p] =
                        [name |-> name, chunks |-> cs,
                         points |-> BuildPoints(cs, next_id)]]
                 /\ next_id' = next_id + Len(cs)
                 /\ q_pc' = [q_pc EXCEPT ![p] = "upsert_send"]
                 /\ UNCHANGED last_call
    /\ UNCHANGED <<qFrame, collection, other_collection>>

\* upsert_vectors, the single client.upsert call and the return
QUpsertSend(p) ==
    /\ q_pc[p] = "upsert_send"
    /\ \E backend_up \in BOOLEAN :
         LET name == q_pending[p].name
             r == ClientUpsert(Coll(name), q_pending[p].points, backend_up)
         IN /\ SetColl(name, r.coll)
            /\ last_call' = [Call(p, "upsert", name, r, UpsertVectors(r))
                               EXCEPT !.chunks = q_pending[p].chunks,
                                      !.sent = q_pending[p].points,
                                      !.value = UpsertVectors(r).value]
    /\ q_pc' = [q_pc EXCEPT ![p] = "idle"]
    /\ q_pending' = [q_pending EXCEPT ![p] = NoPending]
    /\ UNCHANGED <<qFrame, next_id>>

\* search_similar(collection_name, query_vector, limit)
QSearch(p) ==
    /\ q_pc[p] = "idle"
    /\ \E name \in CollNames, qv \in {Embed("q1")}, limit \in {1, SearchLimit},
          backend_up \in BOOLEAN, with_vectors \in BOOLEAN :
         LET r == ClientSearchVectors(Coll(name), qv, limit, backend_up, with_vectors)
             res == SearchSimilarOf(r)
         IN last_call' = [Call(p, "search", name, r, res)
                            EXCEPT !.hits = r.hits, !.limit = limit,
                                   !.results = res.results]
    /\ UNCHANGED <<qFrame, collection, other_collection, next_id, q_pc, q_pending>>

\* get_collection_info(collection_name)
QInfo(p) ==
    /\ q_pc[p] = "idle"
    /\ \E name \in CollNames, backend_up \in BOOLEAN :
         LET r == ClientGetCollection(Coll(name), backend_up)
         IN last_call' = [Call(p, "info", name, r, GetCollectionInfo(name, r))
                            EXCEPT !.info = GetCollectionInfo(name, r).value]
    /\ UNCHANGED <<qFrame, collection, other_collection, next_id, q_pc, q_pending>>

\* delete_collection(collection_name)
QDelete(p) ==
    /\ q_pc[p] = "idle"
    /\ \E name \in CollNames, backend_up \in BOOLEAN :
         LET r == ClientDelete(Coll(name), backend_up)
         IN /\ SetColl(name, r.coll)
            /\ last_call' = [Call(p, "delete", name, r,
                                  DeleteCollection(r, Coll(name).exists))
                               EXCEPT !.value =
                                   DeleteCollection(r, Coll(name).exists).value]
    /\ UNCHANGED <<qFrame, next_id, q_pc, q_pending>>

\* initialize_default_collection, the existence check: return the name when
\* the collection is reported present
QInitCheck(p) ==
    /\ q_pc[p] = "idle" /\ init_calls[p] < MaxInitCalls
    /\ \E backend_up \in BOOLEAN :
         LET r == ClientExists(collection, backend_up)
             res == CollectionExists(r)
         IN IF res.value
            THEN /\ last_call' = [Call(p, "initialize", QDRANT_COLLECTION, r,
                                       Returned(QDRANT_COLLECTION))
                                    EXCEPT !.name_out = QDRANT_COLLECTION]
                 /\ init_calls' = [init_calls EXCEPT ![p] = @ + 1]
                 /\ UNCHANGED q_pc
            ELSE /\ q_pc' = [q_pc EXCEPT ![p] = "init_create"]
                 /\ UNCHANGED <<last_call, init_calls>>
    /\ UNCHANGED <<qBase, collection, other_collection, next_id, q_pending>>

\* initialize_default_collection, the creation with the size of a sample
\* embedding; the outcome is logged and the name returned
QInitCreate(p) ==
    /\ q_pc[p] = "init_create"
    /\ \E backend_up \in BOOLEAN :
         LET r == ClientCreate(collection, EmbeddingDim,
                               DistanceOf("cosine"), backend_up)
         IN /\ SetColl(QDRANT_COLLECTION, r.coll)
            /\ last_call' = [Call(p, "initialize", QDRANT_COLLECTION, r,
                                  Returned(QDRANT_COLLECTION))
                               EXCEPT !.name_out = QDRANT_COLLECTION,
                                      !.created = CreateCollection(r).value,
                                      !.existed = FALSE]
    /\ q_pc' = [q_pc EXCEPT ![p] = "idle"]
    /\ init_calls' = [init_calls EXCEPT ![p] = @ + 1]
    /\ UNCHANGED <<qBase, next_id, q_pending>>

\* one run calling the methods of the service one after the other
NextQdrant ==
    \E p \in {"run1"} :
        \/ QCreate(p) \/ QExists(p) \/ QUpsertBuild(p) \/ QUpsertSend(p)
        \/ QSearch(p) \/ QInfo(p) \/ QDelete(p)
        \/ QInitCheck(p) \/ QInitCreate(p)

SpecQdrant == InitQdrant /\ [][NextQdrant]_vars

\* two pipeline runs upserting concurrently into two existing collections
InitUpserts ==
    /\ pc = "service"
    /\ IdleChunk
    /\ entry = "qdrant" /\ agent_configs = <<>> /\ pdf_id = "pdf1" /\ query = None
    /\ collection = CollectionWith(0)
    /\ FreshCall
    /\ other_collection = CollectionWith(0) /\ next_id = 0
    /\ q_pc = [p \in Runs |-> "idle"] /\ q_pending = [p \in Runs |-> NoPending]
    /\ last_call = NoCall
    /\ init_calls = [p \in Runs |-> 0]
    /\ IdlePodcast

NextUpserts == \E p \in Runs : QUpsertBuild(p) \/ QUpsertSend(p)

SpecUpserts == InitUpserts /\ [][NextUpserts]_vars

\* two runs calling initialize_default_collection concurrently, from a
\* store without the default collection
NextInitialize == \E p \in Runs : QInitCheck(p) \/ QInitCreate(p)

SpecInitialize == InitQdrant /\ [][NextInitialize]_vars

\* ------------------------------------------------------------------------
\* The collection routes of qdrant_routes.py
\* ------------------------------------------------------------------------
\* a handler's answer: the HTTP status and the detail of an error
Response(code, detail) == [status |-> code, detail |-> detail]

NotFoundDetail == "Collection not found"
CreateFailedDetail == "Failed to create collection"

\* except Exception as e: raise HTTPException(500, detail=f"{prefix}{str(e)}");
\* it also catches the HTTPException raised inside the try block
RouteExcept(exc, prefix) == Response(500, <<prefix>> \o exc.detail)

\* POST /collections: 201, or HTTPException(400) raised inside the try block
CreateResponse(success) ==
    IF success THEN Response(201, <<>>)
    ELSE RouteExcept(Response(400, <<CreateFailedDetail>>), "Error creating collection: ")

\* GET /collections/{name}: the info when it is a non-empty dict, or
\* HTTPException(404) raised inside the try block
InfoResponse(info) ==
    IF info # EmptyDict THEN Response(200, <<>>)
    ELSE RouteExcept(Response(404, <<NotFoundDetail>>), "Error getting collection info: ")

\* DELETE /collections/{name}: success, or HTTPException(404) raised inside
\* the try block
DeleteResponse(success) ==
    IF success THEN Response(200, <<>>)
    ELSE RouteExcept(Response(404, <<NotFoundDetail>>), "Error deleting collection: ")

Answered(call, resp) == [call EXCEPT !.status = resp.status, !.detail = resp.detail]

RCreate(p) ==
    /\ q_pc[p] = "idle"
    /\ \E name \in CollNames, size \in {EmbeddingDim, EmbeddingDim + 1},
          backend_up \in BOOLEAN :
         LET r == ClientCreate(Coll(name), size, DistanceOf("cosine"), backend_up)
             res == CreateCollection(r)
         IN /\ SetColl(name, r.coll)
            /\ last_call' = Answered([Call(p, "POST", name, r, res)
                                        EXCEPT !.value = res.value],
                                     CreateResponse(res.value))
    /\ UNCHANGED <<qFrame, next_id, q_pc, q_pending>>

RGetInfo(p) ==
    /\ q_pc[p] = "idle"
    /\ \E name \in CollNames, backend_up \in BOOLEAN :
         LET r == ClientGetCollection(Coll(name), backend_up)
             res == GetCollectionInfo(name, r)
         IN last_call' = Answered([Call(p, "GET", name, r, res)
                                     EXCEPT !.info = res.value],
                                  InfoResponse(res.value))
    /\ UNCHANGED <<qFrame, collection, other_collection, next_id, q_pc, q_pending>>

RDelete(p) ==
    /\ q_pc[p] = "idle"
    /\ \E name \in CollNames, backend_up \in BOOLEAN :
         LET r == ClientDelete(Coll(name), backend_up)
             res == DeleteCollection(r, Coll(name).exists)
         IN /\ SetColl(name, r.coll)
            /\ last_call' = Answered([Call(p, "DELETE", name, r, res)
                                        EXCEPT !.value = res.value],
                                     DeleteResponse(res.value))
    /\ UNCHANGED <<qFrame, next_id, q_pc, q_pending>>

\* POST /collections/{name}/search: the results and their count
RSearch(p) ==
    /\ q_pc[p] = "idle"
    /\ \E name \in CollNames, qv \in {Embed("q1")}, limit \in {1, SearchLimit},
          backend_up \in BOOLEAN :
         LET r == ClientSearch(Coll(name), qv, limit, backend_up)
             res == SearchSimilarOf(r)
         IN last_call' = Answered([Call(p, "SEARCH", name, r, res)
                                     EXCEPT !.hits = r.hits, !.limit = limit,
                                            !.results = res.results],
                                  Response(200, <<>>))
    /\ UNCHANGED <<qFrame, collection, other_collection, next_id, q_pc, q_pending>>

\* POST /initialize: initialize_default_collection run to its return
RInitialize(p) ==
    /\ q_pc[p] = "idle"
    /\ \E check_up \in BOOLEAN, create_up \in BOOLEAN :
         LET e == ClientExists(collection, check_up)
             r == ClientCreate(collection, EmbeddingDim, DistanceOf("cosine"), create_up)
         IN IF CollectionExists(e).value
            THEN /\ last_call' = Answered([Call(p, "INITIALIZE", QDRANT_COLLECTION, e,
                                                Returned(QDRANT_COLLECTION))
                                             EXCEPT !.name_out = QDRANT_COLLECTION],
                                          Response(200, <<>>))
                 /\ UNCHANGED <<collection, other_collection>>
            ELSE /\ SetColl(QDRANT_COLLECTION, r.coll)
                 /\ last_call' = Answered([Call(p, "INITIALIZE", QDRANT_COLLECTION, r,
                                                Returned(QDRANT_COLLECTION))
                                             EXCEPT !.name_out = QDRANT_COLLECTION,
                                                    !.created = CreateCollection(r).value,
                                                    !.existed = FALSE],
                                          Response(200, <<>>))
    /\ UNCHANGED <<qFrame, next_id, q_pc, q_pending>>

\* the requests are handled one at a time: the handlers never await
NextRoutes ==
    \E p \in {"run1"} :
        RCreate(p) \/ RGetInfo(p) \/ RSearch(p) \/ RDelete(p) \/ RInitialize(p)

SpecRoutes == InitQdrant /\ [][NextRoutes]_vars

\* ------------------------------------------------------------------------
\* PDFService.process_pdf_file
\* ------------------------------------------------------------------------
MaxSegments == 11

\* generate_embeddings: one vector per text chunk, in order
GenerateEmbeddings(tc) == [i \in 1..Len(tc) |-> Embed(tc[i])]

\* mutant: the page number is taken from the one-based position
PageNumberOneBased(i) == (i + 1) \div 5 + 1

\* page_number=i // 5 + 1 for the chunk of index i
PageNumber(i) == i \div 5 + 1

\* the loop over enumerate(zip(text_chunks, embeddings)): i counts from 0
ProcessChunks(tc, embeddings, filename) ==
    [k \in 1..Len(tc) |->
        Chunk(tc[k], PageNumber(k - 1), Some(embeddings[k]), Some(filename),
              Some(k - 1))]

\* the PDFProcessingResult of process_pdf_file for the text chunks tc
ProcessPdfFile(tc, filename) ==
    LET cs == ProcessChunks(tc, GenerateEmbeddings(tc), filename)
    IN [filename |-> filename, total_chunks |-> Len(cs),
        total_pages |-> Len(tc) \div 5 + 1, status |-> "completed", chunks |-> cs]

\* process_pdf_file is called on a file whose text is segmented already
InitProcess ==
    /\ pc = "process"
    /\ IdleChunk
    /\ entry = "process_pdf_file" /\ agent_configs = <<>> /\ pdf_id = "pdf1"
    /\ query = None /\ collection = AbsentCollection
    /\ FreshCall
    /\ IdleService
    /\ pdf_chunks = <<>> /\ upsert_result = FALSE /\ run_points = <<>>
    /\ audio_idx = 0 /\ podcast = None
    /\ text_chunks \in SeqsUpTo({"c1", "c2"}, MaxSegments)
    /\ pdf_result = None

\* the embeddings, the chunk objects and the result
PProcess ==
    /\ pc = "process"
    /\ pdf_result' = Some(ProcessPdfFile(text_chunks, "test.pdf"))
    /\ pc' = "processed"
    /\ UNCHANGED <<chunkVars, reqVars, svcVars, ctxVars, flowVars, outVars, text_chunks,
                   pdf_chunks, upsert_result, run_points, audio_idx, podcast>>

NextProcess == PProcess

SpecProcess == InitProcess /\ [][NextProcess]_vars

\* ------------------------------------------------------------------------
\* PodcastService.generate_complete_podcast
\* ------------------------------------------------------------------------
MaxPdfChunks == 2

\* the text chunks of a file that segments into n chunks
PdfChunks(n) == [i \in 1..n |-> ContentNames[i]]

\* default_agents of _generate_podcast_conversation, by role
DefaultAgents == <<"explainer", "curious", "user">>

\* query or "Generate a podcast conversation about the PDF content"
DefaultQuery == "Generate a podcast conversation about the PDF content"

PdfError == "cannot read the PDF file"
SpeechError == "text to speech unavailable"
\* reading podcast_audio inside the expression that first assigns it
UnboundError == "local variable 'podcast_audio' referenced before assignment"

\* raise Exception(f"Failed to generate speech: {str(e)}")
SpeechFailed(err) == <<"Failed to generate speech: ", err>>
\* raise Exception(f"Failed to generate podcast audio: {str(e)}")
AudioFailed(err) == <<"Failed to generate podcast audio: ">> \o err
\* raise Exception(f"Failed to generate complete podcast: {str(e)}")
PodcastFailed(err) == <<"Failed to generate complete podcast: ">> \o err

\* download_url=f"/podcasts/{podcast_audio.podcast_id}/download" is evaluated
\* before podcast_audio is bound: building CompletePodcastAudio always raises
CompleteAudioRaises == TRUE

\* the messages handed to the voice service: those whose agent is found
MessagesForAudio(conv) ==
    SelectSeq(conv.messages,
              LAMBDA m : \E i \in 1..Len(conv.agents) : conv.agents[i].id = m.agent_id)

\* the number of the speech call that fails, 0 when every call succeeds
FailPoints(msgs) == {0, 1, Len(msgs)}

Step(name) == [step |-> name, status |-> "completed"]

\* the dict built by step 5
CompletePodcast(pid, conv, n_segments) ==
    [pdf_id |-> pid, title |-> conv.title, conversation |-> conv,
     segments |-> n_segments, status |-> "completed",
     processing_steps |-> <<Step("PDF Processing"), Step("Vector Storage"),
                            Step("Conversation Generation"),
                            Step("Audio Generation")>>]

\* mutant: the except clause removes the points the run has stored
OnFailureRollback(coll, pts) ==
    [coll EXCEPT !.points =
        SelectSeq(coll.points, LAMBDA q : \A i \in 1..Len(pts) : pts[i].id # q.id)]

\* the collection after the except clause of generate_complete_podcast,
\* which logs and re-raises and calls nothing else
OnFailure(coll, pts) == coll

\* generate_complete_podcast(pdf_file_path, filename, query) is called
InitPodcast ==
    /\ pc = "pod_process"
    /\ IdleChunk
    /\ entry = "conversation" /\ agent_configs = <<>>
    /\ pdf_id = "pdf1" /\ query \in {None, Some("q1")}
    /\ collection \in {AbsentCollection, CollectionWith(0)}
    /\ FreshCall
    /\ IdleService /\ IdlePodcast

\* step 1: pdf_result = process_pdf_file(...); an exception of the
\* extraction goes to the except clause
PodProcess ==
    /\ pc = "pod_process"
    /\ \E ok \in BOOLEAN, n \in 1..MaxPdfChunks :
         IF ok
         THEN /\ text_chunks' = PdfChunks(n)
              /\ pdf_result' = Some(ProcessPdfFile(PdfChunks(n), "a.pdf"))
              /\ pdf_chunks' = ProcessPdfFile(PdfChunks(n), "a.pdf").chunks
              /\ pc' = "pod_upsert"
              /\ UNCHANGED error
         ELSE /\ error' = Some(<<PdfError>>)
              /\ pc' = "pod_raised"
              /\ UNCHANGED <<pdfVars, pdf_chunks>>
    /\ UNCHANGED <<chunkVars, reqVars, svcVars, ctxVars, flowVars, agents, conversation,
                   upsert_result, run_points, audio_idx, podcast>>

\* step 2: upsert_vectors(QDRANT_COLLECTION, pdf_result.chunks); the
\* returned bool is not looked at
PodUpsert ==
    /\ pc = "pod_upsert"
    /\ \E backend_up \in BOOLEAN :
         LET pts == BuildPoints(pdf_chunks, next_id)
             r == ClientUpsert(collection, pts, backend_up)
         IN /\ collection' = r.coll
            /\ upsert_result' = UpsertVectors(r).value
            /\ run_points' = IF r.raised THEN <<>> ELSE pts
            /\ next_id' = next_id + Len(pts)
    /\ pc' = "pod_converse"
    /\ UNCHANGED <<chunkVars, entry, agent_configs, pdf_id, query, other_collection,
                   q_pc, q_pending, last_call, init_calls, ctxVars, flowVars, outVars,
                   pdfVars, pdf_chunks, audio_idx, podcast>>

\* step 3, _generate_podcast_conversation: the request with the default
\* agents and the query or its default; generate_podcast_conversation is
\* called with it
PodConverse ==
    /\ pc = "pod_converse"
    /\ agent_configs' = DefaultAgents
    /\ query' = Some(OrElse(query, DefaultQuery))
    /\ pc' = "gen_start"
    /\ UNCHANGED <<chunkVars, entry, pdf_id, collection, svcVars, podVars, ctxVars,
                   flowVars, outVars>>

\* step 4, _generate_podcast_audio over generate_podcast_audio: one
\* generate_speech call per message, the first failing one ends the call;
\* then the CompletePodcastAudio is built and step 5 returns the dict
PodNarrate ==
    /\ pc = "returned"
    /\ LET msgs == MessagesForAudio(conversation[1])
       IN \E fail_at \in FailPoints(msgs) :
            IF fail_at > 0
            THEN /\ audio_idx' = fail_at - 1
                 /\ error' = Some(AudioFailed(SpeechFailed(SpeechError)))
                 /\ pc' = "pod_raised"
                 /\ UNCHANGED podcast
            ELSE /\ audio_idx' = Len(msgs)
                 /\ IF CompleteAudioRaises
                    THEN /\ error' = Some(AudioFailed(<<UnboundError>>))
                         /\ pc' = "pod_raised"
                         /\ UNCHANGED podcast
                    ELSE /\ podcast' = Some(CompletePodcast(pdf_id, conversation[1],
                                                            Len(msgs)))
                         /\ pc' = "pod_returned"
                         /\ UNCHANGED error
    /\ UNCHANGED <<chunkVars, reqVars, svcVars, ctxVars, flowVars, agents, conversation,
                   pdfVars, pdf_chunks, upsert_result, run_points>>

\* except Exception as e: log, raise Exception("Failed to generate complete
\* podcast: ..."), for an exception of any step
PodExcept ==
    /\ pc \in {"pod_raised", "raised"}
    /\ error' = Some(PodcastFailed(error[1]))
    /\ collection' = OnFailure(collection, run_points)
    /\ pc' = "pod_failed"
    /\ UNCHANGED <<chunkVars, entry, agent_configs, pdf_id, query, svcVars, podVars,
                   ctxVars, flowVars, agents, conversation>>

NextPodcast ==
    \/ PodProcess \/ PodUpsert \/ PodConverse
    \/ GenerateStart
    \/ CtxBranch \/ CtxEmbed \/ CtxSearch
    \/ FlowStart
    \/ ExplainerTurn \/ CuriousTurn
    \/ FlowReturn
    \/ PodNarrate
    \/ PodExcept

SpecPodcast == InitPodcast /\ [][NextPodcast]_vars

\* ------------------------------------------------------------------------
\* Properties
\* ------------------------------------------------------------------------
HasRole(role) == role \in Range(agent_configs)
RoleOf(agent_id) == agents[agent_id].role
FlowReturned == pc \in {"flow_return", "returned"}

\* C1: with an explainer and a curious agent configured, the flow does not
\* fail and returns exactly 11 messages, the first by the curious agent, the
\* speakers alternating curious, explainer, ..., curious.
Thm_C1 ==
    /\ (HasRole("explainer") /\ HasRole("curious")) => pc # "raised"
    /\ FlowReturned =>
         /\ Len(messages) = 11
         /\ \A i \in 1..Len(messages) :
              RoleOf(messages[i].agent_id) = IF i % 2 = 1 THEN "curious" ELSE "explainer"
         /\ RoleOf(messages[Len(messages)].agent_id) = "curious"

Wit_C1 ==
    /\ pc = "returned"
    /\ agent_configs = <<"user", "explainer", "curious">>
    /\ Len(conversation[1].messages) = 11

\* C2 (state part): the message of a failed generation call is the apology
\* carrying the error text, a failure never ends the synthesis, the k-th
\* turn is made whatever the earlier ones did, and the returned conversation
\* has 11 messages after 10 calls and status completed.
Inv_C2 ==
    /\ Len(gen_failed) = gen_calls
    /\ Len(messages) = (IF gen_calls = 0 /\ pc # "explainer_turn" THEN 0 ELSE gen_calls + 1)
    /\ \A k \in 1..Len(gen_failed) :
         gen_failed[k] =>
            /\ messages[k + 1].content[1] = ApologyPrefix
            /\ GenError \in Range(messages[k + 1].content)
    /\ pc = "raised" => gen_calls = 0
    /\ pc = "returned" =>
         /\ gen_calls = 10
         /\ conversation # None
         /\ conversation[1].status = "completed"
         /\ Len(conversation[1].messages) = 11
         /\ conversation[1].messages = messages

\* C2: for every pattern of failures of the 10 generation calls the apology
\* replaces the failed turn, and the synthesis, once the opening message is
\* there, ends with the completed conversation of 11 messages.
Thm_C2 == []Inv_C2 /\ ((pc = "explainer_turn") ~> (pc = "returned"))

Wit_C2 ==
    /\ pc = "returned"
    /\ gen_failed[1] /\ ~gen_failed[2] /\ gen_failed[3] /\ gen_failed[10]
    /\ conversation[1].messages[3].content = GenText
    /\ conversation[1].messages[4].content = Apology(GenError)

\* C3: when the configured agents lack an explainer or a curious agent, the
\* call ends in an error, no message is ever produced, no generation call
\* is made and no conversation object exists.
Thm_C3 ==
    (~HasRole("explainer") \/ ~HasRole("curious")) =>
        /\ messages = <<>>
        /\ gen_calls = 0
        /\ conversation = None
        /\ pc \in {"gen_start", "ctx_start", "ctx_embed", "ctx_search",
                   "flow_start", "raised"}
        /\ pc = "raised" => error = Some(WrappedError(FlowError))

Wit_C3 ==
    /\ pc = "raised"
    /\ HasRole("explainer") /\ ~HasRole("curious")
    /\ error # None

\* C4 (as claimed): joining the chunks with single spaces gives exactly the
\* whitespace-normalized input.
Claim_C4 == pc = "chunk_done" => SpaceJoin(chunks) = SpaceJoin(Split(text))

\* C5: every returned chunk is at most chunk_size long, except a chunk that
\* is one single word longer than chunk_size.
Thm_C5 ==
    pc = "chunk_done" =>
        \A i \in 1..Len(chunks) :
            \/ Len(chunks[i]) <= chunk_size
            \/ /\ Split(chunks[i]) = <<chunks[i]>>
               /\ chunks[i] \in Range(words)

Wit_C5 ==
    /\ pc = "chunk_done"
    /\ \E i \in 1..Len(chunks) : Len(chunks[i]) > chunk_size
    /\ \E j \in 1..Len(chunks) : Len(Split(chunks[j])) = 2 /\ Len(chunks[j]) = chunk_size

\* number of input words held by the first i chunks
RECURSIVE WordsIn(_, _)
WordsIn(cs, i) == IF i = 0 THEN 0 ELSE WordsIn(cs, i - 1) + Len(Split(cs[i]))

\* C6: every chunk but the last is maximal: with a space and the next input
\* word appended it would be longer than chunk_size; "a b c d e" with
\* chunk_size 3 gives "a b", "c d", "e".
Thm_C6 ==
    pc = "chunk_done" =>
        /\ \A i \in 1..(Len(chunks) - 1) :
              /\ WordsIn(chunks, i) < Len(words)
              /\ Len(chunks[i]) + 1 + Len(words[WordsIn(chunks, i) + 1]) > chunk_size
        /\ (text = ExampleText /\ chunk_size = 3) => chunks = ExampleChunks

Wit_C6 ==
    /\ pc = "chunk_done"
    /\ text = ExampleText /\ chunk_size = 3
    /\ chunks = ExampleChunks

Min(a, b) == IF a <= b THEN a ELSE b

\* C7: with a query, a working embedding and a working search, the context
\* is made of the content fields of the min(5, n) best points of the default
\* collection, best first, with a blank line between two of them.
Thm_C7 ==
    (pc = "ctx_done" /\ Truthy(query) /\ ctx_path = "searched" /\ ~client_raised) =>
        LET k == Min(5, Len(collection.points))
        IN /\ Len(search_results) = k
           /\ Len(context) = (IF k = 0 THEN 0 ELSE 2 * k - 1)
           /\ \A i \in 1..k :
                /\ context[2 * i - 1] = search_results[i].payload.content
                /\ i < k => context[2 * i] = BlankLine
                /\ \E j \in 1..Len(collection.points) :
                     /\ collection.points[j].id = search_results[i].id
                     /\ collection.points[j].payload = search_results[i].payload
                /\ i < k => search_results[i].score >= search_results[i + 1].score
           /\ \A j \in 1..Len(collection.points) :
                \/ \E i \in 1..k : search_results[i].id = collection.points[j].id
                \/ /\ k > 0
                   /\ Score(query_embedding, collection.points[j].vector)
                        <= search_results[k].score

Wit_C7 ==
    /\ pc = "ctx_done" /\ query = Some("q1") /\ ctx_path = "searched"
    /\ Len(collection.points) = 6
    /\ context = <<"c3", BlankLine, "c1", BlankLine, "c5", BlankLine, "c6", BlankLine, "c4">>

\* C8 (as claimed): without a query, or when the embedding or the search
\* fails, the returned context contains the pdf_id.
Claim_C8 ==
    (pc = "ctx_done" /\ (~Truthy(query) \/ ctx_path = "embed_failed" \/ client_raised)) =>
        pdf_id \in Range(context)

\* C9: a failed embedding or a failed vector search never aborts
\* generate_podcast_conversation: with an explainer and a curious agent the
\* call does not raise, and what it returns is a completed conversation of
\* 11 messages.
Thm_C9 ==
    ((ctx_path = "embed_failed" \/ client_raised)
        /\ HasRole("explainer") /\ HasRole("curious")) =>
        /\ pc # "raised" /\ error = None
        /\ pc \in {"flow_start", "explainer_turn", "curious_turn",
                   "flow_return", "returned"}
        /\ pc = "returned" =>
             /\ conversation # None
             /\ conversation[1].status = "completed"
             /\ Len(conversation[1].messages) = 11

Wit_C9 ==
    /\ pc = "returned" /\ client_raised
    /\ conversation[1].status = "completed"
    /\ Len(conversation[1].messages) = 11

\* C10: search_similar never raises; when the client fails, because the
\* collection does not exist or the backend is down, it returns [].
Thm_C10 ==
    /\ ~search_raised
    /\ pc # "ctx_raised"
    /\ client_raised => (search_results = <<>> /\ pc = "ctx_done")

Wit_C10 ==
    /\ pc = "ctx_done" /\ client_raised /\ ~collection.exists
    /\ search_results = <<>>

\* ------------------------------------------------------------------------
\* Properties of QdrantService
\* ------------------------------------------------------------------------
\* the ids of a list of points
IdsOf(ps) == {ps[i].id : i \in 1..Len(ps)}

\* C11: a search whose client call succeeded returns at most limit results,
\* one per hit and in the backend's order, with the hit's id, score and
\* payload, whether or not the hit carries its vector (violated: a hit that
\* carries its vector ends the conversion in the except clause, and the
\* search returns [])
Claim_C11 ==
    (last_call.op = "search" /\ ~last_call.client_raised) =>
        /\ Len(last_call.results) <= last_call.limit
        /\ Len(last_call.results) = Len(last_call.hits)
        /\ \A i \in 1..Len(last_call.results) :
             /\ last_call.results[i].id = last_call.hits[i].id
             /\ last_call.results[i].score = last_call.hits[i].score
             /\ last_call.results[i].payload = last_call.hits[i].payload

\* C12: upsert_vectors builds one point per chunk, in order, with a fresh id,
\* the chunk's embedding as vector and the chunk's content, page number,
\* source and chunk index as payload, sends them in one client call and
\* returns True exactly when that call was made and did not raise
Thm_C12 ==
    last_call.op = "upsert" =>
        /\ ~last_call.raised
        /\ last_call.value = (last_call.called /\ ~last_call.client_raised)
        /\ last_call.called =>
             /\ Len(last_call.sent) = Len(last_call.chunks)
             /\ Cardinality(IdsOf(last_call.sent)) = Len(last_call.sent)
             /\ IdsOf(last_call.sent) \cap IdsOf(last_call.before) = {}
             /\ \A i \in 1..Len(last_call.sent) :
                  LET pt == last_call.sent[i]
                      ch == last_call.chunks[i]
                  IN /\ pt.vector = ch.embedding[1]
                     /\ pt.payload.content = ch.content
                     /\ pt.payload.page_number = ch.page_number
                     /\ ch.metadata.source # None =>
                            pt.payload.source = ch.metadata.source[1]
                     /\ ch.metadata.chunk_index # None =>
                            pt.payload.chunk_index = ch.metadata.chunk_index[1]

\* two chunks with the same chunk index stored by one successful call
Wit_C12 ==
    /\ last_call.op = "upsert" /\ last_call.value
    /\ Len(last_call.sent) = 2
    /\ last_call.sent[1].payload.chunk_index = last_call.sent[2].payload.chunk_index
    /\ \A i \in 1..2 : \E j \in 1..Len(Coll(last_call.name).points) :
           Coll(last_call.name).points[j] = last_call.sent[i]

\* an upsert that sent a vector of another size than the collection's to a
\* collection that exists
SentWrongSize ==
    /\ last_call.op = "upsert" /\ last_call.called
    /\ Coll(last_call.name).exists
    /\ \E i \in 1..Len(last_call.sent) :
           Len(last_call.sent[i].vector) # Coll(last_call.name).dim

\* C13: every stored vector has the size of its collection, and an upsert of
\* a vector of another size fails with an error of its own (violated: the
\* method returns the same False as for any backend failure, and raises
\* nothing)
Claim_C13 ==
    /\ \A name \in CollNames : \A i \in 1..Len(Coll(name).points) :
           Len(Coll(name).points[i].vector) = Coll(name).dim
    /\ SentWrongSize => last_call.raised

\* every point of the collection ps is in qs with the same vector and payload
Keeps(ps, qs) == \A i \in 1..Len(ps) : \E j \in 1..Len(qs) : qs[j] = ps[i]

\* C14: whatever the interleaving of concurrent upserts, a step loses or
\* changes no stored point of either collection, ids stay unique in a
\* collection, and an upsert the backend accepted returns True with all its
\* points stored
Thm_C14 ==
    [][/\ Keeps(collection.points, collection'.points)
       /\ Keeps(other_collection.points, other_collection'.points)
       /\ Cardinality(IdsOf(collection'.points)) = Len(collection'.points)
       /\ Cardinality(IdsOf(other_collection'.points)) = Len(other_collection'.points)
       /\ (last_call'.op = "upsert" /\ last_call'.called
             /\ ~last_call'.client_raised) =>
              /\ last_call'.value
              /\ Keeps(last_call'.sent,
                       IF last_call'.name = QDRANT_COLLECTION
                       THEN collection'.points ELSE other_collection'.points)]_vars

\* run1 built its point first and stored it last, after run2 stored the
\* same chunk in the same collection
Wit_C14 ==
    /\ last_call.op = "upsert" /\ last_call.run = "run1" /\ last_call.value
    /\ last_call.name = QDRANT_COLLECTION
    /\ Len(collection.points) = 2
    /\ collection.points[1].id > collection.points[2].id
    /\ collection.points[1].payload = collection.points[2].payload

\* what a method returns from its except clause
Sentinel(call) ==
    CASE call.op = "info" -> call.info = EmptyDict
      [] call.op = "search" -> call.results = <<>>
      [] OTHER -> call.value = FALSE

\* C15: when the client call of create_collection, collection_exists,
\* upsert_vectors, get_collection_info or delete_collection raises, the
\* method raises nothing, returns False (an empty dict for the info) and
\* no collection changes
Thm_C15 ==
    [][(last_call'.client_raised
          /\ last_call'.op \in {"create", "exists", "upsert", "info", "delete"}) =>
           /\ ~last_call'.raised
           /\ Sentinel(last_call')
           /\ collection' = collection
           /\ other_collection' = other_collection]_vars

\* the info of a collection that could not be read
Wit_C15 ==
    /\ last_call.op = "info" /\ last_call.client_raised
    /\ last_call.info = EmptyDict

\* C16: delete_collection returns True whenever the client call did not
\* raise, also for a collection that did not exist, and the collection is
\* absent afterwards
Thm_C16 ==
    last_call.op = "delete" =>
        /\ last_call.value = ~last_call.client_raised
        /\ last_call.value => Coll(last_call.name) = AbsentCollection

\* a delete of a collection that did not exist
Wit_C16 ==
    /\ last_call.op = "delete" /\ ~last_call.client_raised
    /\ ~last_call.existed /\ last_call.value

\* C17: after initialize_default_collection returned, the default collection
\* exists and the returned name is its name (violated: a creation that
\* failed is only logged, and the name is returned though there is no
\* collection)
Claim_C17 ==
    last_call.op = "initialize" =>
        /\ last_call.name_out = QDRANT_COLLECTION
        /\ collection.exists

\* ------------------------------------------------------------------------
\* Properties of PodcastService.generate_complete_podcast
\* ------------------------------------------------------------------------
\* the call has ended, by a return or by an exception
PodEnded == pc \in {"pod_returned", "pod_failed"}

\* a status log whose first k - 1 steps are completed, whose step k failed
\* and whose later steps were not attempted
FailureLog(log, k) ==
    /\ Len(log) = 4
    /\ \A i \in 1..4 :
         log[i].status = IF i < k THEN "completed"
                         ELSE IF i = k THEN "failed" ELSE "not_attempted"

\* C18: when a step fails, the caller receives a per-step status log with
\* the earlier steps completed, the failing step failed and the later steps
\* not attempted (violated: the except clause raises an exception that
\* carries only the message of the error, and no log is returned)
Claim_C18 ==
    pc = "pod_failed" =>
        /\ podcast # None
        /\ \E k \in 1..4 : FailureLog(podcast[1].processing_steps, k)

\* C19: when the call fails, the points this run has upserted are in the
\* collection as they were stored, and so is nothing else: no failure path
\* deletes or rewrites a point
Thm_C19 ==
    pc = "pod_failed" =>
        /\ collection.points = run_points
        /\ upsert_result => /\ Len(run_points) = Len(pdf_chunks)
                            /\ \A i \in 1..Len(run_points) :
                                 /\ run_points[i].vector = pdf_chunks[i].embedding[1]
                                 /\ run_points[i].payload.content = pdf_chunks[i].content

\* the audio step failed after two chunks were stored and the dialogue made
Wit_C19 ==
    /\ pc = "pod_failed" /\ upsert_result
    /\ conversation # None
    /\ Len(collection.points) = 2

\* C20: when the processing, the upsert, the dialogue and every speech call
\* succeeded, the call returns a result of status completed whose
\* processing_steps are PDF Processing, Vector Storage, Conversation
\* Generation and Audio Generation, each completed (violated: building the
\* CompletePodcastAudio raises after the last speech call, and the call
\* fails)
Claim_C20 ==
    (/\ PodEnded
     /\ upsert_result
     /\ conversation # None
     /\ \A i \in 1..Len(gen_failed) : ~gen_failed[i]
     /\ audio_idx = Len(conversation[1].messages)) =>
        /\ pc = "pod_returned"
        /\ podcast # None
        /\ podcast[1].status = "completed"
        /\ podcast[1].processing_steps =
               <<Step("PDF Processing"), Step("Vector Storage"),
                 Step("Conversation Generation"), Step("Audio Generation")>>

\* ------------------------------------------------------------------------
\* Properties of the agent configuration
\* ------------------------------------------------------------------------
\* the number of configured agents of a role
CountRole(role) == Cardinality({i \in 1..Len(agent_configs) : agent_configs[i] = role})

\* C21: the dialogue proceeds (a first message exists) only when the
\* configuration holds exactly one explainer and exactly one curious agent
\* (violated: the flow takes the first agent of each role and proceeds with
\* two explainers or two curious agents)
Claim_C21 ==
    messages # <<>> => CountRole("explainer") = 1 /\ CountRole("curious") = 1

\* ------------------------------------------------------------------------
\* Properties of the collection routes
\* ------------------------------------------------------------------------
\* the service reported the collection absent to the handler
ReportedAbsent ==
    \/ last_call.op = "GET" /\ last_call.info = EmptyDict
    \/ last_call.op = "DELETE" /\ ~last_call.value

\* C22: GET and DELETE on a collection the service reports absent answer
\* 404 'Collection not found', never 500 (violated: the HTTPException(404)
\* is raised inside the try block, caught by except Exception and answered
\* as 500)
Claim_C22 ==
    ReportedAbsent => last_call.status = 404 /\ last_call.detail = <<NotFoundDetail>>

\* ------------------------------------------------------------------------
\* Properties of the turns of a synthesis
\* ------------------------------------------------------------------------
\* what the prompt shows of a message: the agent id and the content
Shown(m) == [agent_id |-> m.agent_id, content |-> m.content]

\* C23: when the k-th generation call has been made, the transcript held
\* exactly k messages at the call (k + 1 with the answer), the history and
\* the transcript are the same list, and the prompt showed exactly the last
\* min(5, k) of those k messages in order, as agent id and content, the
\* last shown being the message of the turn before
Thm_C23 ==
    gen_calls >= 1 =>
        LET k == gen_calls
            n == Min(HistoryWindow, k)
        IN /\ k <= 2 * Rounds
           /\ Len(messages) = k + 1
           /\ conversation_history = messages
           /\ Len(last_prompt.history) = n
           /\ \A i \in 1..n : last_prompt.history[i] = Shown(messages[k - n + i])
           /\ last_prompt.history[n] = Shown(messages[k])
           /\ last_prompt.agent = messages[k + 1].agent_id

\* the seventh call saw five of seven messages, the last one an apology
Wit_C23 ==
    /\ gen_calls = 7 /\ gen_failed[6] /\ ~gen_failed[5]
    /\ Len(last_prompt.history) = 5
    /\ last_prompt.history[5].content = Apology(GenError)
    /\ last_prompt.history[1] = Shown(messages[3])

\* ------------------------------------------------------------------------
\* Properties of the opening message
\* ------------------------------------------------------------------------
\* C24: the first message of a transcript is made without a generation
\* call, is the curious agent's, and is the opening question about the
\* caller's query, or about 'this PDF content' when the caller gave none,
\* also when the orchestrator starts the synthesis (violated: the
\* orchestrator replaces a missing query by its own default sentence, which
\* becomes the topic of the question)
Claim_C24 ==
    messages # <<>> =>
        /\ RoleOf(messages[1].agent_id) = "curious"
        /\ Len(gen_failed) = Len(messages) - 1
        /\ \E topic \in {"q1", DefaultTopic} :
             messages[1].content = <<"What can you tell me about ", topic, "?">>

\* ------------------------------------------------------------------------
\* Properties of process_pdf_file
\* ------------------------------------------------------------------------
\* C25: for text of n segments the result holds n chunks in segment order
\* and total_chunks = n; the chunk of index i has chunk_index i, the i-th
\* embedding and page_number = i div 5 + 1, so the page numbers start at 1,
\* never decrease, and no page number is given to more than 5 chunks
Thm_C25 ==
    pc = "processed" =>
        LET res == pdf_result[1]
            n == Len(text_chunks)
            page(k) == res.chunks[k].page_number
        IN /\ Len(res.chunks) = n
           /\ res.total_chunks = n
           /\ \A k \in 1..n :
                /\ res.chunks[k].content = text_chunks[k]
                /\ res.chunks[k].metadata.chunk_index = Some(k - 1)
                /\ res.chunks[k].embedding = Some(Embed(text_chunks[k]))
                /\ page(k) = (k - 1) \div 5 + 1
                /\ page(k) >= 1
                /\ k < n => page(k) <= page(k + 1)
                /\ Cardinality({j \in 1..n : page(j) = page(k)}) <= 5

\* eleven segments fill two pages and start a third
Wit_C25 ==
    /\ pc = "processed"
    /\ Len(text_chunks) = 11
    /\ pdf_result[1].chunks[5].page_number = 1
    /\ pdf_result[1].chunks[6].page_number = 2
    /\ pdf_result[1].chunks[11].page_number = 3
    /\ pdf_result[1].chunks[1].content # pdf_result[1].chunks[2].content

\* C28: for n >= 1 chunks, total_pages is the largest page number of a
\* chunk (violated: total_pages is n div 5 + 1, one more than the last
\* chunk's page whenever n is a multiple of 5)
Claim_C28 ==
    (pc = "processed" /\ Len(text_chunks) >= 1) =>
        /\ \A k \in 1..Len(text_chunks) :
               pdf_result[1].chunks[k].page_number <= pdf_result[1].total_pages
        /\ \E k \in 1..Len(text_chunks) :
               pdf_result[1].chunks[k].page_number = pdf_result[1].total_pages

\* ------------------------------------------------------------------------
\* Properties of the emitted chunks
\* ------------------------------------------------------------------------
\* C26: every chunk chunk_text returns holds at least one word, a word
\* longer than chunk_size is a chunk of its own, and a text without words
\* gives no chunk (violated: an over-long first word makes the else branch
\* seal the still empty current chunk, and an empty chunk is returned)
Claim_C26 ==
    pc = "chunk_done" =>
        /\ \A i \in 1..Len(chunks) : chunks[i] # <<>>
        /\ \A j \in 1..Len(words) :
               Len(words[j]) > chunk_size => \E i \in 1..Len(chunks) : chunks[i] = words[j]
        /\ words = <<>> => chunks = <<>>

\* ------------------------------------------------------------------------
\* Properties of the retrieval across documents
\* ------------------------------------------------------------------------
\* the context of a search for the query q in the collection coll, whatever
\* the document asked about: empty when the search failed
SharedContext(q, coll, failed) ==
    IF failed THEN <<>>
    ELSE JoinContents(ConvertHits(ClientSearch(coll, Embed(q), SearchLimit, TRUE)).results)

\* C29: with a query the returned context is determined by the query and
\* the default collection alone: it is the joined contents of the best
\* points of the whole collection, of whatever document, the empty text
\* when the search failed, or the generic text when the embedding failed;
\* the pdf_id has no part
Thm_C29 ==
    (pc = "ctx_done" /\ Truthy(query)) =>
        /\ ctx_path \in {"searched", "embed_failed", "search_raised"}
        /\ ctx_path = "searched" =>
               context = SharedContext(query[1], collection, client_raised)
        /\ ctx_path # "searched" => context = GenericContext
        /\ pdf_id \notin Range(context)

\* the context for pdf1 holds a chunk stored for pdf2
Wit_C29 ==
    /\ pc = "ctx_done" /\ query = Some("q1") /\ pdf_id = "pdf1"
    /\ ctx_path = "searched"
    /\ \E i \in 1..Len(search_results) :
         /\ search_results[i].payload.pdf_id = "pdf2"
         /\ search_results[i].payload.content \in Range(context)

\* ------------------------------------------------------------------------
\* Properties of concurrent initialisations
\* ------------------------------------------------------------------------
\* C30: whatever the interleaving of two initialize_default_collection
\* calls started without the collection, no call raises, each returns the
\* configured name, a create succeeds only while the collection is absent,
\* and once both runs have returned the collection exists (violated: when
\* the creates fail because the store is unreachable, both calls return
\* the name and there is no collection)
Claim_C30 ==
    /\ last_call.op = "initialize" =>
         /\ ~last_call.raised
         /\ last_call.name_out = QDRANT_COLLECTION
         /\ last_call.created => collection.exists
    /\ (\A p \in Runs : init_calls[p] >= 1) => collection.exists

====
